---- MODULE Spec2Model ----
(***************************************************************************)
(* The storage hierarchy of tradinghours (Store -> Collection -> Cluster), *)
(* the ingestion routing of the DeclaredFile descriptors and the query     *)
(* facade (Catalog), as a state machine over the files of one store        *)
(* directory and the in-memory registries of one process.                  *)
(*                                                                         *)
(* Python strings are tuples of character codes, so that slugify and the   *)
(* lexicographic comparison of filter are computed, not assumed.           *)
(***************************************************************************)
EXTENDS Integers, Sequences, FiniteSets, TLC

VARIABLES
    files,        \* disk: <<collection slug, cluster slug>> -> lines of <slug>.dat
    dirs,         \* disk: the collection directories that exist under the root
    collections,  \* Store._collections._resources: collection slugs, creation order
    clusters,     \* per registered Collection, _clusters._resources: cluster slugs
    result,       \* what the last completed call returned or raised
    op,           \* the last call made and its arguments
    run,          \* number of the current ingestion run (history)
    pc,           \* the statements the running entry point has still to execute
    cur,          \* position of ingest_all in the descriptor table
    phase,        \* position of DeclaredFile.ingest: "pre", "load"
    wrote,        \* store_item calls the running entry point has made (history)
    failed,       \* descriptor whose source raised in this call, 0 if none (history)
    dl,           \* the download of the running entry point: "na" when it makes none,
                  \* "pending", "returned", "raised"
    log,          \* per cluster file, the (key, record) appended since it was created (history)
    known         \* DeclaredFile.known_files of the process: name -> class, insertion order

vars == <<files, dirs, collections, clusters, result, op, run, pc, cur,
          phase, wrote, failed, dl, log, known>>

storeVars == <<files, dirs, collections, clusters>>
ingestVars == <<run, pc, cur, phase, wrote, failed, dl>>

----------------------------------------------------------------------------
(* Bounds of the model *)

MaxLines == 2     \* lines kept on disk, all cluster files together
MaxRows == 2      \* rows one ingestion run reads from its sources
MaxRuns == 2      \* ingestion runs

----------------------------------------------------------------------------
(* Python values *)

PyNone == <<-1>>          \* None: no string has a negative character

s_currencies == <<99,117,114,114,101,110,99,105,101,115>>
s_currency_holidays ==
    <<99,117,114,114,101,110,99,121,95,104,111,108,105,100,97,121,115>>
s_markets == <<109,97,114,107,101,116,115>>
s_holidays == <<104,111,108,105,100,97,121,115>>
s_schedules == <<115,99,104,101,100,117,108,101,115>>
s_unique == <<117,110,105,113,117,101>>
s_default == <<100,101,102,97,117,108,116>>
s_USD == <<85,83,68>>
s_EUR == <<69,85,82>>
s_US == <<85,83>>
s_NYSE == <<78,89,83,69>>
s_US_NYSE == <<85,83,46,78,89,83,69>>
s_2023_01_02 == <<50,48,50,51,45,48,49,45,48,50>>
s_2023_2_1 == <<50,48,50,51,45,50,45,49>>
s_2023_10_1 == <<50,48,50,51,45,49,48,45,49>>
s_empty == <<>>

InSeq(x, s) == \E i \in 1..Len(s) : s[i] = x

\* str <= str, character by character, a proper prefix first
RECURSIVE StrLE(_, _)
StrLE(a, b) ==
    IF a = <<>> THEN TRUE
    ELSE IF b = <<>> THEN FALSE
    ELSE IF Head(a) < Head(b) THEN TRUE
    ELSE IF Head(a) > Head(b) THEN FALSE
    ELSE StrLE(Tail(a), Tail(b))

\* str(fin_id): country "." acronym
FinIdStr(fin_id) == fin_id.country \o <<46>> \o fin_id.acronym

\* util.slugify: lower case, every character outside a-z0-9 becomes "-"
SlugChar(c) ==
    LET l == IF c >= 65 /\ c <= 90 THEN c + 32 ELSE c
    IN  IF (l >= 97 /\ l <= 122) \/ (l >= 48 /\ l <= 57) THEN l ELSE 45

slugify(name) == [i \in 1..Len(name) |-> SlugChar(name[i])]

\* BaseObject.to_dict: the fields of the instance, without its type
to_dict(item) == [f \in DOMAIN item \ {"model"} |-> item[f]]

\* Model.from_tuple: an instance of the model with the stored fields
from_tuple(model, data) == ("model" :> model) @@ data

\* the fields of the instances of a model
ModelFields(model) ==
    CASE model = "Currency" -> {"code"}
      [] model = "CurrencyHoliday" -> {"currency_code", "date"}
      [] model = "Market" -> {"fin_id"}
      [] model = "MarketHoliday" -> {"fin_id", "date"}
      [] model = "Schedule" -> {"fin_id", "schedule_group"}

\* Model.from_tuple raises on a stored record that is not one of the model
decodable(model, data) == DOMAIN data = ModelFields(model)

----------------------------------------------------------------------------
(* The state of the store as one value, so that calls compose *)

Cur == [files |-> files, dirs |-> dirs, collections |-> collections,
        clusters |-> clusters, run |-> run]

Commit(st) ==
    /\ files' = st.files
    /\ dirs' = st.dirs
    /\ collections' = st.collections
    /\ clusters' = st.clusters

TotalLines(f) ==
    LET RECURSIVE Sum(_)
        Sum(P) == IF P = {} THEN 0
                  ELSE LET p == CHOOSE q \in P : TRUE
                       IN  Len(f[p]) + Sum(P \ {p})
    IN  Sum(DOMAIN f)

----------------------------------------------------------------------------
(* Cluster *)

\* Cluster.touch: create the file if absent, keep it otherwise
ClusterTouch(st, path) ==
    IF path \in DOMAIN st.files THEN st
    ELSE [st EXCEPT !.files = @ @@ (path :> <<>>)]

\* Cluster.delete: remove the file if present
ClusterDelete(st, path) ==
    [st EXCEPT !.files = [p \in DOMAIN @ \ {path} |-> @[p]]]

\* (mutant) the line written at the head of the file
ClusterAppend_prepending(st, path, key, tuple) ==
    LET line == [key |-> key, data |-> tuple, run |-> st.run]
    IN  IF path \in DOMAIN st.files
        THEN [st EXCEPT !.files[path] = <<line>> \o @]
        ELSE [st EXCEPT !.files = @ @@ (path :> <<line>>)]

\* (mutant) the file opened with mode "w": the line replaces the content
ClusterAppend_truncating(st, path, key, tuple) ==
    LET line == [key |-> key, data |-> tuple, run |-> st.run]
    IN  IF path \in DOMAIN st.files
        THEN [st EXCEPT !.files[path] = <<line>>]
        ELSE [st EXCEPT !.files = @ @@ (path :> <<line>>)]

\* Cluster.append: one line [key, tuple] at the end of the file (mode "a")
ClusterAppend(st, path, key, tuple) ==
    LET line == [key |-> key, data |-> tuple, run |-> st.run]
    IN  IF path \in DOMAIN st.files
        THEN [st EXCEPT !.files[path] = Append(@, line)]
        ELSE [st EXCEPT !.files = @ @@ (path :> <<line>>)]

\* Cluster.load_all: replay of the lines into an ordered mapping key -> record,
\* a later line of a key replacing the value of the earlier one
MapPut(m, key, data) ==
    IF \E i \in 1..Len(m) : m[i].key = key
    THEN [i \in 1..Len(m) |-> IF m[i].key = key
                              THEN [key |-> key, data |-> data] ELSE m[i]]
    ELSE Append(m, [key |-> key, data |-> data])

RECURSIVE Replay(_, _)
Replay(lines, m) ==
    IF lines = <<>> THEN m
    ELSE Replay(Tail(lines), MapPut(m, Head(lines).key, Head(lines).data))

load_all(st, path) == Replay(st.files[path], <<>>)

----------------------------------------------------------------------------
(* Registry, ClusterRegistry, CollectionRegistry, Collection *)

\* CollectionRegistry.create: Collection(folder), touch() makes the directory
CollectionCreate(st, slug) ==
    [st EXCEPT !.dirs = @ \cup {slug},
               !.clusters = (slug :> <<>>) @@ @]

\* (mutant) Registry.get without the lookup: a known slug gets a new Collection
CollectionsGet_always_creates(st, name) ==
    LET slug == slugify(name)
    IN  IF InSeq(slug, st.collections) THEN CollectionCreate(st, slug)
        ELSE [CollectionCreate(st, slug) EXCEPT !.collections = Append(@, slug)]

\* Registry.get on Store.collections
CollectionsGet(st, name) ==
    LET slug == slugify(name)
    IN  IF InSeq(slug, st.collections) THEN st
        ELSE [CollectionCreate(st, slug) EXCEPT !.collections = Append(@, slug)]

\* ClusterRegistry.create: Cluster(folder / slug.dat), touch()
ClusterCreate(st, coll, slug) == ClusterTouch(st, <<coll, slug>>)

\* (mutant) the Cluster created and returned but not kept in the registry
ClustersGet_unregistered(st, coll, name) ==
    LET slug == slugify(name)
    IN  IF InSeq(slug, st.clusters[coll]) THEN st
        ELSE ClusterCreate(st, coll, slug)

\* Registry.get on Collection.clusters
ClustersGet(st, coll, name) ==
    LET slug == slugify(name)
    IN  IF InSeq(slug, st.clusters[coll]) THEN st
        ELSE [ClusterCreate(st, coll, slug) EXCEPT !.clusters[coll] = Append(@, slug)]

\* Collection.clear: delete the file of every registered Cluster, new registry
RECURSIVE DeleteEach(_, _, _)
DeleteEach(st, coll, slugs) ==
    IF slugs = <<>> THEN st
    ELSE DeleteEach(ClusterDelete(st, <<coll, Head(slugs)>>), coll, Tail(slugs))

\* (mutant) the files deleted, the registry of the collection kept
CollectionClear_keeps_registry(st, coll) ==
    DeleteEach(st, coll, st.clusters[coll])

CollectionClear(st, coll) ==
    [DeleteEach(st, coll, st.clusters[coll]) EXCEPT !.clusters[coll] = <<>>]

----------------------------------------------------------------------------
(* Store *)

\* Store.clear_collection
clear_collection(st, name) ==
    CollectionClear(CollectionsGet(st, name), slugify(name))

\* (mutant) the write path falling back to the slug of the read path
WriteFallback_default == s_default

\* the cluster store_item writes to when it is given none
WriteFallback == s_unique

\* Store.store_item
store_item(st, item, collection, cluster, key) ==
    LET st1 == CollectionsGet(st, collection)
        coll == slugify(collection)
        name == IF cluster = PyNone THEN WriteFallback ELSE cluster
        st2 == ClustersGet(st1, coll, name)
    IN  ClusterAppend(st2, <<coll, slugify(name)>>, key, to_dict(item))

----------------------------------------------------------------------------
(* DeclaredFile descriptors *)

\* DeclaredFile.known_files, in the order the subclasses are defined
known_files == <<
    [name |-> s_currencies,        model |-> "Currency"],
    [name |-> s_currency_holidays, model |-> "CurrencyHoliday"],
    [name |-> s_markets,           model |-> "Market"],
    [name |-> s_holidays,          model |-> "MarketHoliday"],
    [name |-> s_schedules,         model |-> "Schedule"] >>

\* DeclaredFile.resolve_collection
resolve_collection(d, item) == d.name

\* (mutant) MarketFile clustering by the whole identifier, as the holidays do
resolve_cluster_market_by_fin_id(d, item) ==
    CASE d.name = s_currency_holidays -> item.currency_code
      [] d.name = s_markets -> FinIdStr(item.fin_id)
      [] d.name = s_holidays -> FinIdStr(item.fin_id)
      [] d.name = s_schedules -> FinIdStr(item.fin_id)
      [] OTHER -> PyNone

\* resolve_cluster of CurrencyHolidayFile, MarketFile, MarketHolidayFile and
\* ScheduleFile, the default of DeclaredFile for the others
resolve_cluster(d, item) ==
    CASE d.name = s_currency_holidays -> item.currency_code
      [] d.name = s_markets -> item.fin_id.country
      [] d.name = s_holidays -> FinIdStr(item.fin_id)
      [] d.name = s_schedules -> FinIdStr(item.fin_id)
      [] OTHER -> PyNone

\* resolve_key of CurrencyFile, CurrencyHolidayFile, MarketFile and
\* MarketHolidayFile, the default of DeclaredFile for the others
resolve_key(d, item) ==
    CASE d.name = s_currencies -> item.code
      [] d.name = s_currency_holidays -> item.date
      [] d.name = s_markets -> FinIdStr(item.fin_id)
      [] d.name = s_holidays -> item.date
      [] OTHER -> PyNone

\* pre_ingest of ScheduleFile, the default of DeclaredFile for the others
pre_ingest(st, d) ==
    IF d.name = s_schedules THEN clear_collection(st, d.name) ELSE st

\* one turn of the loop of DeclaredFile.ingest
ingest_row(st, d, item) ==
    store_item(st, item, resolve_collection(d, item),
               resolve_cluster(d, item), resolve_key(d, item))

----------------------------------------------------------------------------
(* Catalog *)

\* Catalog.find_model_collection, for a model some descriptor declares
find_model_collection(st, model) ==
    LET i == CHOOSE j \in 1..Len(known_files) :
                 /\ known_files[j].model = model
                 /\ \A h \in 1..(j - 1) : known_files[h].model # model
    IN  [st |-> CollectionsGet(st, known_files[i].name),
         coll |-> slugify(known_files[i].name)]

\* (mutant) the read path falling back to the slug of the write path
ReadFallback_unique == s_unique

\* the cluster get and filter read when they are given none
ReadFallback == s_default

\* cluster or "default": None and the empty string are both false
cluster_or_default(cluster) ==
    IF cluster = PyNone \/ cluster = s_empty THEN ReadFallback ELSE cluster

\* Catalog.get
RECURSIVE GetScan(_, _, _)
GetScan(m, model, key) ==
    IF m = <<>> THEN [exc |-> "none", ret |-> <<>>]
    ELSE IF Head(m).key = key
         THEN IF decodable(model, Head(m).data)
              THEN [exc |-> "none", ret |-> <<from_tuple(model, Head(m).data)>>]
              ELSE [exc |-> "DecodeError", ret |-> <<>>]
    ELSE GetScan(Tail(m), model, key)

get(st, model, key, cluster) ==
    LET f == find_model_collection(st, model)
        name == cluster_or_default(cluster)
        st2 == ClustersGet(f.st, f.coll, name)
        cluster_data == load_all(st2, <<f.coll, slugify(name)>>)
        r == GetScan(cluster_data, model, key)
    IN  [st |-> st2, exc |-> r.exc, ret |-> r.ret]

\* Catalog.filter, a generator, consumed until it ends or raises: what it
\* yielded and how it ended; comparing a None key with a str raises TypeError
RECURSIVE FilterScan(_, _, _, _, _)
FilterScan(m, model, key_start, key_end, out) ==
    IF m = <<>> THEN [exc |-> "none", ret |-> out]
    ELSE IF Head(m).key = PyNone THEN [exc |-> "TypeError", ret |-> out]
    ELSE IF StrLE(key_start, Head(m).key) /\ StrLE(Head(m).key, key_end)
         THEN IF decodable(model, Head(m).data)
              THEN FilterScan(Tail(m), model, key_start, key_end,
                              Append(out, from_tuple(model, Head(m).data)))
              ELSE [exc |-> "DecodeError", ret |-> out]
         ELSE FilterScan(Tail(m), model, key_start, key_end, out)

filter(st, model, key_start, key_end, cluster) ==
    LET f == find_model_collection(st, model)
        name == cluster_or_default(cluster)
        st2 == ClustersGet(f.st, f.coll, name)
        cluster_data == load_all(st2, <<f.coll, slugify(name)>>)
        r == FilterScan(cluster_data, model, key_start, key_end, <<>>)
    IN  [st |-> st2, exc |-> r.exc, ret |-> r.ret]

\* Catalog.list_all, a generator, consumed until it ends or raises
RECURSIVE DecodeEach(_, _, _)
DecodeEach(m, model, out) ==
    IF m = <<>> THEN [exc |-> "none", ret |-> out]
    ELSE IF decodable(model, Head(m).data)
         THEN DecodeEach(Tail(m), model, Append(out, from_tuple(model, Head(m).data)))
         ELSE [exc |-> "DecodeError", ret |-> out]

\* (mutant) the clusters visited from the one registered last
RECURSIVE ListScan_newest_first(_, _, _, _, _)
ListScan_newest_first(st, coll, slugs, model, out) ==
    IF slugs = <<>> THEN [exc |-> "none", ret |-> out]
    ELSE LET r == DecodeEach(load_all(st, <<coll, slugs[Len(slugs)]>>), model, out)
         IN  IF r.exc # "none" THEN r
             ELSE ListScan_newest_first(st, coll, SubSeq(slugs, 1, Len(slugs) - 1),
                                        model, r.ret)

\* (mutant) every line of the cluster file yielded, a key as often as appended
RECURSIVE ListScan_every_line(_, _, _, _, _)
ListScan_every_line(st, coll, slugs, model, out) ==
    IF slugs = <<>> THEN [exc |-> "none", ret |-> out]
    ELSE LET r == DecodeEach(st.files[<<coll, Head(slugs)>>], model, out)
         IN  IF r.exc # "none" THEN r
             ELSE ListScan_every_line(st, coll, Tail(slugs), model, r.ret)

RECURSIVE ListScan(_, _, _, _, _)
ListScan(st, coll, slugs, model, out) ==
    IF slugs = <<>> THEN [exc |-> "none", ret |-> out]
    ELSE LET r == DecodeEach(load_all(st, <<coll, Head(slugs)>>), model, out)
         IN  IF r.exc # "none" THEN r
             ELSE ListScan(st, coll, Tail(slugs), model, r.ret)

list_all(st, model) ==
    LET f == find_model_collection(st, model)
        r == ListScan(f.st, f.coll, f.st.clusters[f.coll], model, <<>>)
    IN  [st |-> f.st, exc |-> r.exc, ret |-> r.ret]

\* (mutant) ingestion started before the download
download_and_ingest_ingest_first == <<"ingest_all", "download">>

\* Catalog.download_and_ingest: the calls it makes, in order
download_and_ingest == <<"download", "ingest_all">>

\* console.run_import: the calls it makes, in order
run_import(force_or_needs_download) ==
    IF force_or_needs_download THEN <<"download", "ingest_all">> ELSE <<>>

\* (mutant) the error of a source swallowed, the loop going on
ingest_all_raised_continues(i) == IF i < Len(known_files) THEN i + 1 ELSE 0

\* Store.ingest_all and Catalog.ingest_all: where the loop over the descriptor
\* table stands once source.ingest has raised (0: the loop is left)
ingest_all_raised(i) == 0

----------------------------------------------------------------------------
(* Inputs *)

NYSE == [country |-> s_US, acronym |-> s_NYSE]

\* the rows a source of the model can hold
Items(model) ==
    CASE model = "Currency" ->
            {[model |-> "Currency", code |-> c] : c \in {s_USD}}
      [] model = "CurrencyHoliday" ->
            {[model |-> "CurrencyHoliday", currency_code |-> s_USD,
              date |-> s_2023_01_02]}
      [] model = "Market" ->
            {[model |-> "Market", fin_id |-> NYSE]}
      [] model = "MarketHoliday" ->
            {[model |-> "MarketHoliday", fin_id |-> NYSE, date |-> d] :
                d \in {s_2023_01_02}}
      [] model = "Schedule" ->
            {[model |-> "Schedule", fin_id |-> NYSE, schedule_group |-> g] :
                g \in {"Regular", "Partial"}}

\* arguments of the direct calls of store_item
DirectItems == {[model |-> "MarketHoliday", fin_id |-> NYSE, date |-> d] :
                   d \in {s_2023_2_1, s_2023_10_1}}
DirectCollections == {s_holidays}
DirectClusters == {PyNone, s_default}
DirectKeys == {PyNone, s_2023_2_1, s_2023_10_1}

\* arguments of the queries
QueryClusters == {PyNone, s_empty, s_unique}
QueryKeys == {s_2023_2_1, s_2023_10_1}
QueryRanges == {<<<<50,48,50,51,45,49,45,49>>, s_2023_10_1>>,
                <<s_2023_2_1, <<50,48,50,51,45,51,45,49>> >>}

\* class attributes of the descriptors introduced after the import
s_rates == <<114,97,116,101,115>>
s_fees == <<102,101,101,115>>
NoModel == "None"       \* None where a model class is expected
IntroNames == {PyNone, s_currencies, s_rates, s_fees}
IntroModels == {NoModel, "Currency", "Rate"}

----------------------------------------------------------------------------
(* Initial state: a new Store on an empty root directory *)

\* known_files once the module is imported: the five descriptors it defines
KnownAtImport ==
    [i \in 1..Len(known_files) |->
        [key |-> known_files[i].name, name |-> known_files[i].name,
         model |-> known_files[i].model]]

NoFiles == [p \in {} |-> <<>>]
Nothing == [exc |-> "none", ret |-> <<>>]

Init ==
    /\ files = NoFiles
    /\ dirs = {}
    /\ collections = <<>>
    /\ clusters = NoFiles
    /\ result = Nothing
    /\ op = [name |-> "init"]
    /\ run = 0
    /\ pc = <<>>
    /\ cur = 0
    /\ phase = "-"
    /\ wrote = 0
    /\ failed = 0
    /\ dl = "na"
    /\ log = NoFiles
    /\ known = KnownAtImport

Idle == pc = <<>>

\* the history of the appends: the files that exist, each with what was appended
LogAfter(st, path, entries) ==
    [p \in DOMAIN st.files |->
        (IF p \in DOMAIN files /\ p \in DOMAIN log THEN log[p] ELSE <<>>)
        \o (IF p = path THEN entries ELSE <<>>)]

\* the file store_item(_, collection, cluster, _) is to write
TargetPath(collection, cluster) ==
    <<slugify(collection), slugify(IF cluster = PyNone THEN s_unique ELSE cluster)>>

----------------------------------------------------------------------------
(* Calls of the store and the catalog, made while no ingestion is running *)

StoreItem(item, collection, cluster, key) ==
    /\ UNCHANGED known
    /\ Idle
    /\ TotalLines(files) < MaxLines
    /\ LET st == store_item(Cur, item, collection, cluster, key)
       IN  /\ Commit(st)
           /\ log' = LogAfter(st, TargetPath(collection, cluster),
                              <<[key |-> key, data |-> to_dict(item)]>>)
    /\ op' = [name |-> "store_item", item |-> item, collection |-> collection,
              cluster |-> cluster, key |-> key]
    /\ result' = Nothing
    /\ UNCHANGED ingestVars

ClearCollection(name) ==
    /\ UNCHANGED known
    /\ Idle
    /\ LET st == clear_collection(Cur, name)
       IN  /\ Commit(st)
           /\ log' = LogAfter(st, <<>>, <<>>)
    /\ op' = [name |-> "clear_collection", collection |-> name]
    /\ result' = Nothing
    /\ UNCHANGED ingestVars

Query(r) ==
    /\ UNCHANGED known
    /\ Commit(r.st)
    /\ log' = LogAfter(r.st, <<>>, <<>>)
    /\ result' = [exc |-> r.exc, ret |-> r.ret]
    /\ UNCHANGED ingestVars

Get(model, key, cluster) ==
    /\ Idle
    /\ Query(get(Cur, model, key, cluster))
    /\ op' = [name |-> "get", model |-> model, key |-> key, cluster |-> cluster]

Filter(model, key_start, key_end, cluster) ==
    /\ Idle
    /\ Query(filter(Cur, model, key_start, key_end, cluster))
    /\ op' = [name |-> "filter", model |-> model, key_start |-> key_start,
              key_end |-> key_end, cluster |-> cluster]

ListAll(model) ==
    /\ Idle
    /\ Query(list_all(Cur, model))
    /\ op' = [name |-> "list_all", model |-> model]

\* the process ends and a new one opens the same store directory
Restart ==
    /\ Idle
    /\ collections # <<>>
    /\ collections' = <<>>
    /\ clusters' = NoFiles
    /\ known' = KnownAtImport
    /\ op' = [name |-> "restart"]
    /\ result' = Nothing
    /\ UNCHANGED <<files, dirs, log>>
    /\ UNCHANGED ingestVars

Next ==
    \/ \E item \in DirectItems, collection \in DirectCollections,
          cluster \in DirectClusters, key \in DirectKeys :
          StoreItem(item, collection, cluster, key)
    \/ \E name \in DirectCollections : ClearCollection(name)
    \/ \E key \in QueryKeys, cluster \in QueryClusters :
          Get("MarketHoliday", key, cluster)
    \/ \E range \in QueryRanges, cluster \in QueryClusters :
          Filter("MarketHoliday", range[1], range[2], cluster)
    \/ ListAll("MarketHoliday")
    \/ Restart

Spec == Init /\ [][Next]_vars

\* names given to Registry.get, several of them with the same slug
s_Holidays == <<72,111,108,105,100,97,121,115>>
s_currency_holidays_slug ==
    <<99,117,114,114,101,110,99,121,45,104,111,108,105,100,97,121,115>>
s_us_nyse == <<117,115,45,110,121,115,101>>
s_usd == <<117,115,100>>
RegistryCollections ==
    {s_holidays, s_Holidays, s_currency_holidays, s_currency_holidays_slug}
RegistryClusters == {s_US_NYSE, s_us_nyse, s_USD, s_usd, s_default}

\* the position of the resource a registry holds for a slug
RegistryIndex(reg, slug) == CHOOSE i \in 1..Len(reg) : reg[i] = slug

\* store.collections.get(name)
GetCollection(name) ==
    /\ Idle
    /\ LET st == CollectionsGet(Cur, name)
       IN  Query([st |-> st, exc |-> "none",
                  ret |-> <<RegistryIndex(st.collections, slugify(name))>>])
    /\ op' = [name |-> "collections.get", arg |-> name]

\* collection.clusters.get(name), on a Collection the store has handed out
GetCluster(coll, name) ==
    /\ Idle
    /\ InSeq(coll, collections)
    /\ LET st == ClustersGet(Cur, coll, name)
       IN  Query([st |-> st, exc |-> "none",
                  ret |-> <<RegistryIndex(st.clusters[coll], slugify(name))>>])
    /\ op' = [name |-> "clusters.get", coll |-> coll, arg |-> name]

NextRegistry ==
    \/ \E name \in RegistryCollections : GetCollection(name)
    \/ \E coll \in {slugify(n) : n \in RegistryCollections},
          name \in RegistryClusters : GetCluster(coll, name)

SpecRegistry == Init /\ [][NextRegistry]_vars

\* writes under string keys and queries, over several process runs and with
\* no clear in between
NextRuns ==
    \/ \E item \in DirectItems, cluster \in DirectClusters, key \in QueryKeys :
          StoreItem(item, s_holidays, cluster, key)
    \/ \E key \in QueryKeys, cluster \in QueryClusters :
          Get("MarketHoliday", key, cluster)
    \/ \E range \in QueryRanges, cluster \in QueryClusters :
          Filter("MarketHoliday", range[1], range[2], cluster)
    \/ ListAll("MarketHoliday")
    \/ Restart

SpecRuns == Init /\ [][NextRuns]_vars

----------------------------------------------------------------------------
(* Introduction of a descriptor: class X(DeclaredFile) with name and model *)

\* known_files[name] = cls
DictSet(table, key, cls) ==
    IF \E i \in 1..Len(table) : table[i].key = key
    THEN [i \in 1..Len(table) |-> IF table[i].key = key THEN cls ELSE table[i]]
    ELSE Append(table, cls)

\* (mutant) the class registered before its attributes are checked
init_subclass_registers_first(table, name, model) ==
    [exc |-> IF name = PyNone \/ model = NoModel THEN "ValueError" ELSE "none",
     table |-> DictSet(table, name, [key |-> name, name |-> name, model |-> model])]

\* DeclaredFile.__init_subclass__
init_subclass(table, name, model) ==
    IF name = PyNone THEN [exc |-> "ValueError", table |-> table]
    ELSE IF model = NoModel THEN [exc |-> "ValueError", table |-> table]
    ELSE [exc |-> "none",
          table |-> DictSet(table, name,
                            [key |-> name, name |-> name, model |-> model])]

Introduce(name, model) ==
    /\ Idle
    /\ LET r == init_subclass(known, name, model)
       IN  /\ known' = r.table
           /\ result' = [exc |-> r.exc, ret |-> <<>>]
    /\ op' = [name |-> "introduce", cls_name |-> name, model |-> model]
    /\ UNCHANGED <<storeVars, log>>
    /\ UNCHANGED ingestVars

NextIntroduce == \E name \in IntroNames, model \in IntroModels : Introduce(name, model)

SpecIntroduce == Init /\ [][NextIntroduce]_vars

----------------------------------------------------------------------------
\* the same calls, on a collection that also receives records of another model
DecodeItems == {[model |-> "MarketHoliday", fin_id |-> NYSE, date |-> s_2023_2_1],
                [model |-> "Currency", code |-> s_USD]}

NextDecode ==
    \/ \E item \in DecodeItems, cluster \in DirectClusters, key \in QueryKeys :
          StoreItem(item, s_holidays, cluster, key)
    \/ \E key \in QueryKeys : Get("MarketHoliday", key, s_unique)
    \/ \E range \in QueryRanges : Filter("MarketHoliday", range[1], range[2], s_unique)
    \/ ListAll("MarketHoliday")

SpecDecode == Init /\ [][NextDecode]_vars

----------------------------------------------------------------------------
(* Ingestion: the entry points, and the steps of the one that is running *)

Call(name, stmts) ==
    /\ UNCHANGED known
    /\ Idle
    /\ run < MaxRuns
    /\ run' = run + 1
    /\ pc' = stmts \o <<"return">>
    /\ dl' = IF InSeq("download", stmts) THEN "pending" ELSE "na"
    /\ op' = [name |-> name]
    /\ result' = Nothing
    /\ UNCHANGED <<storeVars, log, cur, phase, wrote, failed>>

\* Store.ingest_all(data_folder)
CallIngestAll == Call("ingest_all", <<"ingest_all">>)

\* Catalog.download_and_ingest()
CallDownloadAndIngest == Call("download_and_ingest", download_and_ingest)

\* console.run_import(args)
CallRunImport(force_or_needs_download) ==
    Call("run_import", run_import(force_or_needs_download))

\* the download collaborator returns
DownloadReturns ==
    /\ UNCHANGED known
    /\ pc # <<>> /\ Head(pc) = "download"
    /\ dl' = "returned"
    /\ pc' = Tail(pc)
    /\ UNCHANGED <<storeVars, log, result, op, run, cur, phase, wrote, failed>>

\* the download collaborator raises: nothing after it is executed
DownloadRaises ==
    /\ UNCHANGED known
    /\ pc # <<>> /\ Head(pc) = "download"
    /\ dl' = "raised"
    /\ pc' = <<"return">>
    /\ result' = [exc |-> "DownloadError", ret |-> <<>>]
    /\ UNCHANGED <<storeVars, log, op, run, cur, phase, wrote, failed>>

\* ingest_all reaches the first descriptor of the table
IngestAllEnter ==
    /\ UNCHANGED known
    /\ pc # <<>> /\ Head(pc) = "ingest_all"
    /\ cur = 0
    /\ cur' = 1
    /\ phase' = "pre"
    /\ UNCHANGED <<storeVars, log, result, op, run, pc, wrote, failed, dl>>

\* DeclaredFile.ingest: self.pre_ingest(store)
PreIngest ==
    /\ UNCHANGED known
    /\ cur # 0 /\ phase = "pre"
    /\ LET st == pre_ingest(Cur, known_files[cur])
       IN  /\ Commit(st)
           /\ log' = LogAfter(st, <<>>, <<>>)
    /\ phase' = "load"
    /\ UNCHANGED <<result, op, run, pc, cur, wrote, failed, dl>>

\* DeclaredFile.ingest: the source yields a row, which is stored
LoadRow ==
    /\ UNCHANGED known
    /\ cur # 0 /\ phase = "load"
    /\ wrote < MaxRows
    /\ TotalLines(files) < MaxLines
    /\ \E item \in Items(known_files[cur].model) :
          LET d == known_files[cur]
              st == ingest_row(Cur, d, item)
          IN  /\ Commit(st)
              /\ log' = LogAfter(st, TargetPath(d.name, resolve_cluster(d, item)),
                                 <<[key |-> resolve_key(d, item),
                                    data |-> to_dict(item)]>>)
    /\ wrote' = wrote + 1
    /\ UNCHANGED <<result, op, run, pc, cur, phase, failed, dl>>

\* DeclaredFile.ingest: the source is exhausted; ingest_all goes on with the
\* next descriptor, or is over after the last
LoadEnd ==
    /\ UNCHANGED known
    /\ cur # 0 /\ phase = "load"
    /\ IF cur < Len(known_files)
       THEN /\ cur' = cur + 1
            /\ phase' = "pre"
            /\ UNCHANGED pc
       ELSE /\ cur' = 0
            /\ phase' = "-"
            /\ pc' = Tail(pc)
    /\ UNCHANGED <<storeVars, log, result, op, run, wrote, failed, dl>>

\* DeclaredFile.ingest: the source is missing or unreadable, load raises
LoadRaises ==
    /\ UNCHANGED known
    /\ cur # 0 /\ phase = "load"
    /\ failed = 0
    /\ failed' = cur
    /\ cur' = ingest_all_raised(cur)
    /\ IF cur' = 0
       THEN /\ phase' = "-"
            /\ pc' = <<"return">>
            /\ result' = [exc |-> "OSError", ret |-> <<>>]
       ELSE /\ phase' = "pre"
            /\ UNCHANGED <<pc, result>>
    /\ UNCHANGED <<storeVars, log, op, run, wrote, dl>>

\* the entry point returns to its caller, or the exception reaches it
Return ==
    /\ UNCHANGED known
    /\ pc = <<"return">>
    /\ pc' = <<>>
    /\ cur' = 0
    /\ phase' = "-"
    /\ wrote' = 0
    /\ failed' = 0
    /\ dl' = "na"
    /\ UNCHANGED <<storeVars, log, result, op, run>>

NextIngest ==
    \/ CallIngestAll
    \/ CallDownloadAndIngest
    \/ \E b \in BOOLEAN : CallRunImport(b)
    \/ DownloadReturns
    \/ DownloadRaises
    \/ IngestAllEnter
    \/ PreIngest
    \/ LoadRow
    \/ LoadEnd
    \/ LoadRaises
    \/ Return
    \/ \E key \in {s_USD, s_EUR} : Get("Currency", key, PyNone)
    \/ ListAll("Currency")
    \/ Restart

SpecIngest == Init /\ [][NextIngest]_vars

----------------------------------------------------------------------------
(* Claims *)

\* the descriptor of a model, and the collection directory its records go to
DescriptorOf(model) ==
    CHOOSE d \in {known_files[i] : i \in 1..Len(known_files)} : d.model = model
CollectionOf(model) == slugify(DescriptorOf(model).name)

\* the last line of a file that carries the key
LastWith(lines, key) ==
    CHOOSE i \in 1..Len(lines) :
        /\ lines[i].key = key
        /\ \A j \in (i + 1)..Len(lines) : lines[j].key # key

HasKey(lines, key) == \E i \in 1..Len(lines) : lines[i].key = key

\* C1: a currency that was ingested (the descriptor resolves no cluster) is
\* found by get without a cluster argument, and one that was not is absent.
C1_IngestedCurrencyFound ==
    (op.name = "get" /\ op.model = "Currency" /\ op.cluster = PyNone) =>
        LET ingested ==
                \E p \in DOMAIN log :
                    /\ p[1] = CollectionOf("Currency")
                    /\ HasKey(log[p], op.key)
        IN  IF ingested
            THEN result.ret = <<[model |-> "Currency", code |-> op.key]>>
            ELSE result.ret = <<>>

\* C2: load_all of a cluster has exactly one entry per distinct key appended
\* to it, and the value of the entry is the record of the last append made
\* with that key.
C2_LoadAllLastAppendPerKey ==
    \A p \in DOMAIN files :
        LET m == load_all(Cur, p)
            L == log[p]
        IN  /\ Len(m) = Cardinality({L[i].key : i \in 1..Len(L)})
            /\ \A i \in 1..Len(L) : \E j \in 1..Len(m) : m[j].key = L[i].key
            /\ \A j \in 1..Len(m) :
                  /\ HasKey(L, m[j].key)
                  /\ m[j].data = L[LastWith(L, m[j].key)].data

\* C2 witness: two appends under one key with different records, one entry
C2_Witness ==
    \E p \in DOMAIN files :
        /\ Len(log[p]) = 2
        /\ log[p][1].key = log[p][2].key
        /\ log[p][1].data # log[p][2].data
        /\ Len(load_all(Cur, p)) = 1

\* the entries of a loaded mapping whose key lies within the bounds, decoded
RECURSIVE InRange(_, _, _, _)
InRange(m, model, key_start, key_end) ==
    IF m = <<>> THEN <<>>
    ELSE (IF /\ Head(m).key # PyNone
             /\ StrLE(key_start, Head(m).key)
             /\ StrLE(Head(m).key, key_end)
          THEN <<from_tuple(model, Head(m).data)>> ELSE <<>>)
         \o InRange(Tail(m), model, key_start, key_end)

\* C3: filter yields exactly the records of the resolved cluster whose key k
\* satisfies key_start <= k <= key_end as strings, in the order of the cluster.
C3_FilterYieldsRange ==
    op.name = "filter" =>
        LET p == <<CollectionOf(op.model),
                   slugify(IF op.cluster \in {PyNone, s_empty}
                           THEN s_default ELSE op.cluster)>>
        IN  /\ result.exc = "none"
            /\ result.ret = InRange(load_all(Cur, p), op.model,
                                    op.key_start, op.key_end)

\* C4: a schedules cluster the current ingestion run has written to holds
\* records of that run only, none of an earlier run.
C4_SchedulesFullReplace ==
    \A p \in DOMAIN files :
        (/\ p[1] = slugify(s_schedules)
         /\ \E i \in 1..Len(files[p]) : files[p][i].run = run)
        => \A i \in 1..Len(files[p]) : files[p][i].run = run

\* C5: after clear_collection no cluster file of the collection exists and
\* its cluster registry is empty.
C5_ClearLeavesNoFile ==
    op.name = "clear_collection" =>
        /\ \A p \in DOMAIN files : p[1] # slugify(op.collection)
        /\ clusters[slugify(op.collection)] = <<>>

\* C6: store_item appends its record to one cluster file only: "unique" of
\* the collection when it is given no cluster, the cluster it is given
\* otherwise; every other file is left as it was.
C6_StoreItemTarget ==
    [][(op'.name = "store_item" /\ files' # files) =>
        LET p == <<slugify(op'.collection),
                   slugify(IF op'.cluster = PyNone THEN s_unique
                           ELSE op'.cluster)>>
            before == IF p \in DOMAIN files THEN files[p] ELSE <<>>
        IN  /\ p \in DOMAIN files'
            /\ Len(files'[p]) = Len(before) + 1
            /\ SubSeq(files'[p], 1, Len(before)) = before
            /\ files'[p][Len(before) + 1].key = op'.key
            /\ files'[p][Len(before) + 1].data = to_dict(op'.item)
            /\ \A q \in DOMAIN files' \ {p} :
                  q \in DOMAIN files /\ files'[q] = files[q]
            /\ \A q \in DOMAIN files : q \in DOMAIN files']_vars

\* C6 witness: two store_item calls without a cluster and with different
\* items have both landed in "unique"
C6_Witness ==
    /\ op.name = "store_item" /\ op.cluster = PyNone
    /\ LET p == <<slugify(op.collection), s_unique>>
       IN  /\ p \in DOMAIN files
           /\ Len(files[p]) = 2
           /\ files[p][1].data # files[p][2].data
           /\ files[p][1].key = files[p][2].key
           /\ \A q \in DOMAIN files \ {p} : files[q] = <<>>

\* C7: get without a cluster argument reads the cluster "default" of the
\* model's collection: it returns the record stored there under the requested
\* key if there is one, and None otherwise.
C7_GetReadsDefault ==
    (op.name = "get" /\ op.cluster = PyNone) =>
        LET p == <<CollectionOf(op.model), s_default>>
        IN  /\ p \in DOMAIN files
            /\ result.exc = "none"
            /\ IF HasKey(files[p], op.key)
               THEN result.ret =
                        <<from_tuple(op.model,
                                     files[p][LastWith(files[p], op.key)].data)>>
               ELSE result.ret = <<>>

\* C7 witness: a get without a cluster argument that found its key
C7_Witness ==
    /\ op.name = "get" /\ op.cluster = PyNone
    /\ result.ret # <<>>
    /\ \E p \in DOMAIN files : p[2] = s_unique /\ files[p] # <<>>

\* C8: records appended with no key are retained: list_all yields every one
\* of them, get with a string key never returns one, and filter completes
\* without yielding them.
C8_NullKeysRetained ==
    /\ op.name = "list_all" =>
          \A p \in DOMAIN files :
              (p[1] = CollectionOf(op.model) /\ InSeq(p[2], clusters[p[1]])) =>
                  \A i \in 1..Len(files[p]) :
                      files[p][i].key = PyNone =>
                          InSeq(from_tuple(op.model, files[p][i].data), result.ret)
    /\ op.name = "filter" => result.exc = "none"
    /\ op.name = "get" =>
          LET p == <<CollectionOf(op.model),
                     slugify(IF op.cluster \in {PyNone, s_empty}
                             THEN s_default ELSE op.cluster)>>
          IN  result.ret # <<>> =>
                  \E i \in 1..Len(files[p]) :
                      /\ files[p][i].key = op.key
                      /\ result.ret[1] = from_tuple(op.model, files[p][i].data)

\* C9: download_and_ingest and run_import start no ingestion step before the
\* download has returned, and none at all when the download raises.
C9_DownloadBeforeIngest ==
    op.name \in {"download_and_ingest", "run_import"} =>
        /\ (cur # 0 \/ wrote > 0) => dl = "returned"
        /\ dl = "raised" => (cur = 0 /\ wrote = 0 /\ pc = <<"return">>)

\* C9 witness: rows are stored by download_and_ingest after the download
C9_Witness ==
    /\ op.name = "download_and_ingest"
    /\ dl = "returned"
    /\ wrote > 0

\* lines on disk that the current run appended
RunLines ==
    LET RECURSIVE Count(_)
        Count(P) ==
            IF P = {} THEN 0
            ELSE LET p == CHOOSE q \in P : TRUE
                 IN  Cardinality({i \in 1..Len(files[p]) : files[p][i].run = run})
                     + Count(P \ {p})
    IN  Count(DOMAIN files)

\* C10: when the source of a descriptor raises during ingest_all the call is
\* over with that error, no later descriptor is ingested, and every record the
\* run has appended is still on disk.
C10_AbortKeepsWritten ==
    failed # 0 =>
        /\ cur = 0
        /\ pc = <<"return">>
        /\ result.exc = "OSError"
        /\ RunLines = wrote

\* C10 witness: the source of a descriptor that is not the last raised after
\* earlier descriptors had stored rows
C10_Witness ==
    /\ failed # 0
    /\ failed < Len(known_files)
    /\ wrote > 0
    /\ RunLines > 0

\* C11: a query that meets a stored record it cannot decode fails as a whole:
\* the caller has received none of the records that precede it.
C11_NoPartialResults ==
    result.exc = "DecodeError" => result.ret = <<>>

\* C12: introducing a descriptor that lacks name or model raises a
\* configuration error and leaves the descriptor table as it was; every
\* descriptor of the table has a name and a model and is stored under its name.
C12_IntroductionChecked ==
    /\ [](\A i \in 1..Len(known) :
            /\ known[i].name # PyNone
            /\ known[i].model # NoModel
            /\ known[i].key = known[i].name)
    /\ [][(op'.name = "introduce"
            /\ (op'.cls_name = PyNone \/ op'.model = NoModel))
           => (known' = known /\ result'.exc = "ValueError")]_vars

\* C12 witness: an introduction refused after one that was accepted
C12_Witness ==
    /\ op.name = "introduce"
    /\ result.exc = "ValueError"
    /\ Len(known) > Len(known_files)

\* the clusters of a collection registered in the running process
Registered(coll) == IF coll \in DOMAIN clusters THEN clusters[coll] ELSE <<>>

\* C13: ingesting the same currencies row again, the collection not cleared
\* in between, does not change what list_all(Currency) returns: exactly one
\* Currency with code USD, after the second run as after the first.
C13_ReingestSameResult ==
    (/\ op.name = "list_all" /\ op.model = "Currency"
     /\ InSeq(s_unique, Registered(s_currencies))
     /\ files[<<s_currencies, s_unique>>] # <<>>)
    => /\ result.exc = "none"
       /\ result.ret = <<[model |-> "Currency", code |-> s_USD]>>

\* C13 witness: list_all(Currency) after two runs each ingested the row
C13_Witness ==
    /\ op.name = "list_all" /\ op.model = "Currency"
    /\ InSeq(s_unique, Registered(s_currencies))
    /\ LET lines == files[<<s_currencies, s_unique>>]
       IN  /\ Len(lines) = 2
           /\ lines[1].run = 1 /\ lines[2].run = 2
    /\ result.ret = <<[model |-> "Currency", code |-> s_USD]>>

\* the routing of a parsed record: the arguments of its store_item
RoutingTable(item) ==
    CASE item.model = "Currency" ->
            [collection |-> s_currencies, cluster |-> PyNone, key |-> item.code]
      [] item.model = "CurrencyHoliday" ->
            [collection |-> s_currency_holidays, cluster |-> item.currency_code,
             key |-> item.date]
      [] item.model = "Market" ->
            [collection |-> s_markets, cluster |-> item.fin_id.country,
             key |-> FinIdStr(item.fin_id)]
      [] item.model = "MarketHoliday" ->
            [collection |-> s_holidays, cluster |-> FinIdStr(item.fin_id),
             key |-> item.date]
      [] item.model = "Schedule" ->
            [collection |-> s_schedules, cluster |-> FinIdStr(item.fin_id),
             key |-> PyNone]

\* C14: every row a descriptor parses is stored by exactly one store_item,
\* with the collection, cluster and key of the routing table (one line more
\* in the file of that collection and cluster, no other file touched); and
\* pre_ingest changes the store for schedules only, whose cluster files it
\* deletes.
C14_RoutingTable ==
    [][/\ (wrote' = wrote + 1) =>
            \E item \in Items(known_files[cur].model) :
                LET r == RoutingTable(item)
                    p == TargetPath(r.collection, r.cluster)
                    old == IF p \in DOMAIN files THEN files[p] ELSE <<>>
                IN  /\ p \in DOMAIN files'
                    /\ Len(files'[p]) = Len(old) + 1
                    /\ SubSeq(files'[p], 1, Len(old)) = old
                    /\ files'[p][Len(old) + 1].key = r.key
                    /\ files'[p][Len(old) + 1].data = to_dict(item)
                    /\ DOMAIN files' = DOMAIN files \cup {p}
                    /\ \A q \in DOMAIN files \ {p} : files'[q] = files[q]
       /\ (phase = "pre" /\ phase' = "load") =>
            IF known_files[cur].name = s_schedules
            THEN \A i \in 1..Len(Registered(s_schedules)) :
                    <<s_schedules, Registered(s_schedules)[i]>> \notin DOMAIN files'
            ELSE files' = files /\ clusters' = clusters
                 /\ collections' = collections
      ]_vars

\* C14 witness: the market row stored under its country, keyed by "US.NYSE"
C14_Witness ==
    /\ cur = 3 /\ phase = "load" /\ wrote = 1
    /\ <<s_markets, <<117,115>>>> \in DOMAIN files
    /\ \E i \in 1..Len(files[<<s_markets, <<117,115>>>>]) :
          files[<<s_markets, <<117,115>>>>][i].key = s_US_NYSE

\* what a cluster file holds for a reader: its keys in the order of their
\* first line, each with the record of its last line
RECURSIVE ClusterRecords(_, _, _)
ClusterRecords(lines, model, i) ==
    IF i > Len(lines) THEN <<>>
    ELSE (IF \E j \in 1..(i - 1) : lines[j].key = lines[i].key
          THEN <<>>
          ELSE <<from_tuple(model, lines[LastWith(lines, lines[i].key)].data)>>)
         \o ClusterRecords(lines, model, i + 1)

\* the records of the clusters of a collection, cluster after cluster
RECURSIVE CollectionRecords(_, _, _)
CollectionRecords(coll, slugs, model) ==
    IF slugs = <<>> THEN <<>>
    ELSE ClusterRecords(files[<<coll, Head(slugs)>>], model, 1)
         \o CollectionRecords(coll, Tail(slugs), model)

\* C15: list_all yields the records of the clusters registered under the
\* model's collection and of no other, in the order the clusters were
\* created in the registry and, within a cluster, in the order of load_all;
\* every call yields them from the beginning.
C15_ListAllOrder ==
    op.name = "list_all" =>
        /\ result.exc = "none"
        /\ result.ret = CollectionRecords(CollectionOf(op.model),
                                          Registered(CollectionOf(op.model)),
                                          op.model)

\* C15 witness: list_all over two clusters, each holding a different record
C15_Witness ==
    /\ op.name = "list_all"
    /\ Len(Registered(CollectionOf(op.model))) >= 2
    /\ Len(result.ret) = 2
    /\ result.ret[1] # result.ret[2]

\* the cluster file a get or filter with this cluster argument reads
ReadPath(model, cluster) ==
    <<CollectionOf(model),
      slugify(IF cluster \in {PyNone, s_empty} THEN s_default ELSE cluster)>>

\* the record a cluster file holds under the key of its i-th line
LatestOf(lines, model, i) ==
    from_tuple(model, lines[LastWith(lines, lines[i].key)].data)

\* C16: queries reflect the latest completed writes, those of an earlier
\* process run included: get returns the record stored last under the key in
\* the cluster it reads, filter over a range containing the key yields it,
\* and list_all yields the latest record of every key held on disk in the
\* model's collection.
C16_ReadAfterWrite ==
    /\ op.name = "get" =>
          LET lines == files[ReadPath(op.model, op.cluster)]
          IN  \A i \in 1..Len(lines) :
                  lines[i].key = op.key =>
                      result.ret = <<LatestOf(lines, op.model, i)>>
    /\ op.name = "filter" =>
          LET lines == files[ReadPath(op.model, op.cluster)]
          IN  \A i \in 1..Len(lines) :
                  (/\ lines[i].key # PyNone
                   /\ StrLE(op.key_start, lines[i].key)
                   /\ StrLE(lines[i].key, op.key_end))
                  => InSeq(LatestOf(lines, op.model, i), result.ret)
    /\ op.name = "list_all" =>
          \A p \in DOMAIN files :
              p[1] = CollectionOf(op.model) =>
                  \A i \in 1..Len(files[p]) :
                      InSeq(LatestOf(files[p], op.model, i), result.ret)

\* no slug twice in a registry
NoDuplicates(reg) ==
    \A i, j \in 1..Len(reg) : reg[i] = reg[j] => i = j

\* a Registry.get of a name, seen on the registry before and after and on the
\* resource returned: a slug the registry holds is answered with the resource
\* it holds and changes nothing; a new slug is created once, at the end
Memoized(reg, regAfter, name, ret) ==
    LET slug == slugify(name)
    IN  IF InSeq(slug, reg)
        THEN regAfter = reg /\ ret = <<RegistryIndex(reg, slug)>>
        ELSE regAfter = Append(reg, slug) /\ ret = <<Len(reg) + 1>>

\* C17: over any sequence of Registry.get calls a slug is created at most once,
\* names with the same slug are answered with the same resource, no entry is
\* dropped or replaced, and the registry lists the resources created so far,
\* one per slug, in the order of their creation.
C17_RegistryMemoized ==
    /\ [](/\ NoDuplicates(collections)
          /\ \A c \in DOMAIN clusters : NoDuplicates(clusters[c]))
    /\ [][/\ op'.name = "collections.get" =>
              /\ Memoized(collections, collections', op'.arg, result'.ret)
              /\ \A c \in DOMAIN clusters :
                    c \in DOMAIN clusters' /\ clusters'[c] = clusters[c]
          /\ op'.name = "clusters.get" =>
              /\ Memoized(clusters[op'.coll], clusters'[op'.coll], op'.arg,
                          result'.ret)
              /\ collections' = collections
              /\ \A c \in DOMAIN clusters \ {op'.coll} :
                    clusters'[c] = clusters[c]
         ]_vars

\* C17 witness: a get of a slug the registry already holds, answered with the
\* resource created first and not with a new one
C17_Witness ==
    /\ op.name = "clusters.get" /\ op.arg = s_US_NYSE
    /\ Len(clusters[op.coll]) = 2
    /\ clusters[op.coll][1] = s_us_nyse
    /\ result.ret = <<1>>
    /\ Len(collections) = 2

\* C18: a step of store_item, get, filter or list_all leaves every cluster
\* file unchanged or longer by exactly one line at its end; lines are removed
\* only by clear_collection, and then with the whole file.
C18_AppendMonotonic ==
    [][\A p \in DOMAIN files :
          IF op'.name = "clear_collection"
          THEN p \in DOMAIN files' => files'[p] = files[p]
          ELSE /\ p \in DOMAIN files'
               /\ \/ files'[p] = files[p]
                  \/ /\ Len(files'[p]) = Len(files[p]) + 1
                     /\ SubSeq(files'[p], 1, Len(files[p])) = files[p]
      ]_vars

\* C18 witness: a file extended twice, by different lines, and then a query
\* that created another file beside it
C18_Witness ==
    /\ op.name = "filter"
    /\ \E p, q \in DOMAIN files :
          /\ Len(files[p]) = 2
          /\ files[p][1] # files[p][2]
          /\ files[q] = <<>>

\* C19: get and filter create the cluster they name (or "default") when the
\* process does not hold it yet: its file exists afterwards, empty if it was
\* not on disk, and the cluster is registered, so that list_all visits it; no
\* query changes the content of a file that existed.
C19_QueriesCreateClusters ==
    [][/\ op'.name \in {"get", "filter"} =>
            LET p == ReadPath(op'.model, op'.cluster)
            IN  /\ DOMAIN files' = DOMAIN files \cup {p}
                /\ p \notin DOMAIN files => files'[p] = <<>>
                /\ InSeq(p[1], collections')
                /\ InSeq(p[2], clusters'[p[1]])
                /\ \A q \in DOMAIN files : files'[q] = files[q]
       /\ op'.name = "list_all" => files' = files
      ]_vars

\* C19 witness: a get has created the empty "default" beside a cluster that
\* holds records, and has registered it after that cluster
C19_Witness ==
    /\ op.name = "get" /\ op.cluster = PyNone
    /\ files[<<s_holidays, s_default>>] = <<>>
    /\ clusters[s_holidays] = <<s_unique, s_default>>
    /\ files[<<s_holidays, s_unique>>] # <<>>

\* C20: within a process every registered collection has its directory and
\* every registered cluster its file; the clear of a collection removes the
\* files of its clusters and empties its registry in the same step, and
\* leaves the files and the registry of every other collection as they were.
C20_RegistryMatchesDisk ==
    /\ [](/\ \A i \in 1..Len(collections) :
                /\ collections[i] \in dirs
                /\ collections[i] \in DOMAIN clusters
          /\ \A c \in DOMAIN clusters :
                \A j \in 1..Len(clusters[c]) :
                    <<c, clusters[c][j]>> \in DOMAIN files)
    /\ [][(phase = "pre" /\ phase' = "load"
            /\ known_files[cur].name = s_schedules) =>
            /\ clusters'[s_schedules] = <<>>
            /\ \A j \in 1..Len(Registered(s_schedules)) :
                  <<s_schedules, Registered(s_schedules)[j]>> \notin DOMAIN files'
            /\ \A p \in DOMAIN files :
                  p[1] # s_schedules =>
                      p \in DOMAIN files' /\ files'[p] = files[p]
            /\ \A c \in DOMAIN clusters \ {s_schedules} :
                  clusters'[c] = clusters[c]
            /\ \A i \in 1..Len(collections) : collections'[i] = collections[i]
         ]_vars

\* C20 witness: the second run of a process has cleared schedules, whose
\* registry is empty and whose cluster file is gone, while the currencies
\* cluster is registered still and holds its record
C20_Witness ==
    /\ cur = 5 /\ phase = "load" /\ wrote = 0 /\ run = 2
    /\ clusters[s_schedules] = <<>>
    /\ \A p \in DOMAIN files : p[1] # s_schedules
    /\ InSeq(s_unique, Registered(s_currencies))
    /\ files[<<s_currencies, s_unique>>] # <<>>
    /\ files[<<s_currencies, s_unique>>][1].run = 1

====
